---- MODULE Spec2Model ----
(***************************************************************************)
(* Model of dash.py: a Streamlit page that loads a CSV / spreadsheet into  *)
(* st.session_state.data (a pandas DataFrame) and edits it in place with   *)
(* drop_columns, transform_columns and rename_column, and shows it with    *)
(* show_file_data and the column filter.                                   *)
(*                                                                         *)
(* pandas semantics are those of the 2.x line (object-dtype strings,       *)
(* pd.NA not castable to float by astype(float)).                          *)
(*                                                                         *)
(* Text is a sequence of one-character strings.  A cell is a record        *)
(* [k, s, n]: k the kind ("str", "int", "float", "ts", "NA", "err"), s the *)
(* text of a str cell (or the exception class of an err), n the number of  *)
(* an int cell, the value times Scale of a float cell, the nanoseconds     *)
(* since the epoch of a timestamp cell.                                    *)
(***************************************************************************)
EXTENDS Integers, Sequences, FiniteSets, TLC

\* number of fractional decimal digits a float cell keeps
FracDigits == 2

RECURSIVE Pow10(_)
Pow10(e) == IF e = 0 THEN 1 ELSE 10 * Pow10(e - 1)

Scale == Pow10(FracDigits)

StrC(s) == [k |-> "str", s |-> s, n |-> 0]
IntC(n) == [k |-> "int", s |-> <<>>, n |-> n]
FloatC(h) == [k |-> "float", s |-> <<>>, n |-> h]
TsC(ns) == [k |-> "ts", s |-> <<>>, n |-> ns]
NAC == [k |-> "NA", s |-> <<>>, n |-> 0]
ErrC(exc) == [k |-> "err", s |-> <<exc>>, n |-> 0]

IsErr(c) == c.k = "err"

\* ---------------------------------------------------------------- text
Digits == {"0", "1", "2", "3", "4", "5", "6", "7", "8", "9"}

DigitVal(c) ==
  CASE c = "0" -> 0 [] c = "1" -> 1 [] c = "2" -> 2 [] c = "3" -> 3
    [] c = "4" -> 4 [] c = "5" -> 5 [] c = "6" -> 6 [] c = "7" -> 7
    [] c = "8" -> 8 [] c = "9" -> 9

DigitChr(d) ==
  CASE d = 0 -> "0" [] d = 1 -> "1" [] d = 2 -> "2" [] d = 3 -> "3"
    [] d = 4 -> "4" [] d = 5 -> "5" [] d = 6 -> "6" [] d = 7 -> "7"
    [] d = 8 -> "8" [] d = 9 -> "9"

AllDigits(s) == \A i \in 1..Len(s) : s[i] \in Digits

RECURSIVE DigitsVal(_)
DigitsVal(s) ==
  IF s = <<>> THEN 0
  ELSE 10 * DigitsVal(SubSeq(s, 1, Len(s) - 1)) + DigitVal(s[Len(s)])

RECURSIVE NatToStr(_)
NatToStr(n) ==
  IF n < 10 THEN <<DigitChr(n)>>
  ELSE NatToStr(n \div 10) \o <<DigitChr(n % 10)>>

\* n written with exactly w digits, zero padded on the left
RECURSIVE PadNat(_, _)
PadNat(n, w) ==
  IF w = 0 THEN <<>> ELSE PadNat(n \div 10, w - 1) \o <<DigitChr(n % 10)>>

\* str.replace(ch, "", regex=False): every occurrence of ch is removed
RemoveChar(s, ch) == SelectSeq(s, LAMBDA c : c # ch)

RECURSIVE LStrip(_)
LStrip(s) ==
  IF s # <<>> /\ s[1] = " " THEN LStrip(Tail(s)) ELSE s

RECURSIVE RStrip(_)
RStrip(s) ==
  IF s # <<>> /\ s[Len(s)] = " " THEN RStrip(SubSeq(s, 1, Len(s) - 1)) ELSE s

\* str.strip()
Strip(s) == RStrip(LStrip(s))

\* position of the first occurrence of ch in s, 0 when there is none
FirstPos(s, ch) ==
  IF \E i \in 1..Len(s) : s[i] = ch
  THEN CHOOSE i \in 1..Len(s) : s[i] = ch /\ \A j \in 1..(i - 1) : s[j] # ch
  ELSE 0

\* ------------------------------------------------------------- numbers
\* the text is a decimal literal: [sign] digits [. digits], a digit on at
\* least one side of the point, at most FracDigits digits after it
IsDecimal(s0) ==
  LET s == IF s0 # <<>> /\ s0[1] \in {"+", "-"} THEN Tail(s0) ELSE s0
      p == FirstPos(s, ".")
      ip == IF p = 0 THEN s ELSE SubSeq(s, 1, p - 1)
      fp == IF p = 0 THEN <<>> ELSE SubSeq(s, p + 1, Len(s))
  IN  /\ AllDigits(ip)
      /\ AllDigits(fp)
      /\ Len(ip) + Len(fp) > 0
      /\ Len(fp) <= FracDigits

\* value times Scale of a decimal literal
DecimalVal(s0) ==
  LET neg == s0 # <<>> /\ s0[1] = "-"
      s == IF s0 # <<>> /\ s0[1] \in {"+", "-"} THEN Tail(s0) ELSE s0
      p == FirstPos(s, ".")
      ip == IF p = 0 THEN s ELSE SubSeq(s, 1, p - 1)
      fp == IF p = 0 THEN <<>> ELSE SubSeq(s, p + 1, Len(s))
      v == DigitsVal(ip) * Scale + DigitsVal(fp) * Pow10(FracDigits - Len(fp))
  IN  IF neg THEN 0 - v ELSE v

\* float(text): surrounding whitespace is ignored, anything that is not a
\* number raises ValueError
PyFloat(s) ==
  LET t == Strip(s)
  IN  IF IsDecimal(t) THEN FloatC(DecimalVal(t)) ELSE ErrC("ValueError")

\* str(int)
IntToStr(n) == IF n < 0 THEN <<"-">> \o NatToStr(0 - n) ELSE NatToStr(n)

\* the fractional digits of repr(float): trailing zeros dropped, one kept
RECURSIVE FracStr(_, _)
FracStr(f, w) ==
  IF w > 1 /\ f % 10 = 0 THEN FracStr(f \div 10, w - 1) ELSE PadNat(f, w)

\* str(float): shortest repr, always with a point
FloatToStr(h) ==
  LET a == IF h < 0 THEN 0 - h ELSE h
  IN  (IF h < 0 THEN <<"-">> ELSE <<>>)
        \o NatToStr(a \div Scale) \o <<".">> \o FracStr(a % Scale, FracDigits)

\* ---------------------------------------------------------- timestamps
NsPerSecond == 1000000000

\* days from 1970-01-01 to the civil date y-m-d (proleptic Gregorian)
DaysFromCivil(y, m, d) ==
  LET yy == IF m <= 2 THEN y - 1 ELSE y
      era == yy \div 400
      yoe == yy - era * 400
      mp == IF m > 2 THEN m - 3 ELSE m + 9
      doy == (153 * mp + 2) \div 5 + d - 1
      doe == yoe * 365 + yoe \div 4 - yoe \div 100 + doy
  IN  era * 146097 + doe - 719468

\* the text is an ISO timestamp YYYY-MM-DD[ HH:MM:SS[.f{1,9}]]
IsIsoTimestamp(s) ==
  /\ Len(s) \in {10, 19} \cup 21..29
  /\ AllDigits(SubSeq(s, 1, 4)) /\ s[5] = "-"
  /\ AllDigits(SubSeq(s, 6, 7)) /\ s[8] = "-"
  /\ AllDigits(SubSeq(s, 9, 10))
  /\ DigitsVal(SubSeq(s, 6, 7)) \in 1..12
  /\ DigitsVal(SubSeq(s, 9, 10)) \in 1..31
  /\ Len(s) > 10 =>
       /\ s[11] \in {" ", "T"}
       /\ AllDigits(SubSeq(s, 12, 13)) /\ s[14] = ":"
       /\ AllDigits(SubSeq(s, 15, 16)) /\ s[17] = ":"
       /\ AllDigits(SubSeq(s, 18, 19))
       /\ DigitsVal(SubSeq(s, 12, 13)) < 24
       /\ DigitsVal(SubSeq(s, 15, 16)) < 60
       /\ DigitsVal(SubSeq(s, 18, 19)) < 60
  /\ Len(s) > 19 => s[20] = "." /\ AllDigits(SubSeq(s, 21, Len(s)))

\* nanoseconds since the epoch of an ISO timestamp
IsoNanos(s) ==
  LET days == DaysFromCivil(DigitsVal(SubSeq(s, 1, 4)),
                            DigitsVal(SubSeq(s, 6, 7)),
                            DigitsVal(SubSeq(s, 9, 10)))
      secs == IF Len(s) > 10
              THEN DigitsVal(SubSeq(s, 12, 13)) * 3600
                     + DigitsVal(SubSeq(s, 15, 16)) * 60
                     + DigitsVal(SubSeq(s, 18, 19))
              ELSE 0
      frac == IF Len(s) > 19
              THEN DigitsVal(SubSeq(s, 21, Len(s))) * Pow10(29 - Len(s))
              ELSE 0
  IN  (days * 86400 + secs) * NsPerSecond + frac

\* the sub-second digits pandas prints for a datetime64[ns] column: the
\* resolution is that of the finest value of the column (0, 3, 6 or 9)
TsFracWidth(ns) ==
  IF \E i \in 1..Len(ns) : ns[i] % 1000 # 0 THEN 9
  ELSE IF \E i \in 1..Len(ns) : ns[i] % 1000000 # 0 THEN 6
  ELSE IF \E i \in 1..Len(ns) : ns[i] % NsPerSecond # 0 THEN 3
  ELSE 0

\* str of a timestamp within the first second of the epoch, printed with
\* w sub-second digits; w = 0 and midnight everywhere prints the date alone
TsToStr(n, w) ==
  LET date == <<"1", "9", "7", "0", "-", "0", "1", "-", "0", "1">>
      time == <<" ", "0", "0", ":", "0", "0", ":", "0", "0">>
  IN  IF w = 0 THEN date
      ELSE date \o time \o <<".">> \o PadNat(n \div Pow10(9 - w), w)

\* ------------------------------------------------------------- columns
\* A column (a pandas Series) is [name, dtype, vals]; the result of a
\* conversion is [exc, dtype, vals], exc = "" when nothing was raised.
Column(name, dtype, vals) == [name |-> name, dtype |-> dtype, vals |-> vals]

Converted(dtype, vals) == [exc |-> "", dtype |-> dtype, vals |-> vals]

Raised(exc) == [exc |-> exc, dtype |-> "", vals |-> <<>>]

\* a vectorised conversion stops at the first cell it cannot convert
FirstError(vals) ==
  vals[CHOOSE i \in 1..Len(vals) :
         IsErr(vals[i]) /\ \A j \in 1..(i - 1) : ~IsErr(vals[j])].s[1]

Vectorised(dtype, vals) ==
  IF \E i \in 1..Len(vals) : IsErr(vals[i])
  THEN Raised(FirstError(vals))
  ELSE Converted(dtype, vals)

\* truncation toward zero of a scaled value
Trunc(h) == IF h < 0 THEN 0 - ((0 - h) \div Scale) ELSE h \div Scale

\* Series.astype(str): never raises
StrOfCell(c, w) ==
  CASE c.k = "str" -> c
    [] c.k = "int" -> StrC(IntToStr(c.n))
    [] c.k = "float" -> StrC(FloatToStr(c.n))
    [] c.k = "ts" -> StrC(TsToStr(c.n, w))
    [] c.k = "NA" -> StrC(<<"<", "N", "A", ">">>)

AsTypeStr(ser) ==
  LET w == IF ser.dtype = "datetime64[ns]"
           THEN TsFracWidth([i \in 1..Len(ser.vals) |-> ser.vals[i].n])
           ELSE 0
  IN  Converted("object", [i \in 1..Len(ser.vals) |-> StrOfCell(ser.vals[i], w)])

\* .str.replace("$", "").str.replace(",", "").str.strip().replace("", pd.NA)
CurrencyText(c) ==
  LET t == Strip(RemoveChar(RemoveChar(c.s, "$"), ","))
  IN  IF t = <<>> THEN NAC ELSE StrC(t)

\* one element of Series.astype(float): float(pd.NA) raises TypeError
FloatOfCell(c) ==
  CASE c.k = "str" -> PyFloat(c.s)
    [] c.k = "int" -> FloatC(c.n * Scale)
    [] c.k = "float" -> c
    [] c.k = "NA" -> ErrC("TypeError")

\* an exception raised while the argument was evaluated propagates
AsTypeFloat(ser) ==
  IF ser.exc # "" THEN ser
  ELSE Vectorised("float64", [i \in 1..Len(ser.vals) |-> FloatOfCell(ser.vals[i])])

\* one element of Series.astype(int) of a numeric series: truncation
IntOfCell(c) ==
  CASE c.k = "int" -> c
    [] c.k = "float" -> IntC(Trunc(c.n))

AsTypeInt(ser) ==
  IF ser.exc # "" THEN ser
  ELSE Vectorised("int64", [i \in 1..Len(ser.vals) |-> IntOfCell(ser.vals[i])])

\* one string under pd.to_numeric: an integer literal gives an int, a
\* decimal literal a float, anything else raises ValueError
NumericOfText(s) ==
  LET t == Strip(s)
  IN  IF ~IsDecimal(t) THEN ErrC("ValueError")
      ELSE IF FirstPos(t, ".") = 0 THEN IntC(DecimalVal(t) \div Scale)
      ELSE FloatC(DecimalVal(t))

\* pd.to_numeric(series, errors="raise")
ToNumeric(ser) ==
  CASE ser.dtype \in {"int64", "float64"} -> Converted(ser.dtype, ser.vals)
    [] ser.dtype = "datetime64[ns]" ->
         Converted("int64", [i \in 1..Len(ser.vals) |-> IntC(ser.vals[i].n)])
    [] ser.dtype = "object" ->
         LET nums == [i \in 1..Len(ser.vals) |-> NumericOfText(ser.vals[i].s)]
         IN  IF \E i \in 1..Len(nums) : IsErr(nums[i])
             THEN Raised(FirstError(nums))
             ELSE IF \A i \in 1..Len(nums) : nums[i].k = "int"
             THEN Converted("int64", nums)
             ELSE Converted("float64", [i \in 1..Len(nums) |-> FloatOfCell(nums[i])])

\* one element under pd.to_datetime: numbers are nanoseconds since the
\* epoch, text must be a timestamp
DatetimeOfCell(c) ==
  CASE c.k = "ts" -> c
    [] c.k = "int" -> TsC(c.n)
    [] c.k = "float" -> TsC(Trunc(c.n))
    [] c.k = "str" ->
         IF IsIsoTimestamp(c.s) THEN TsC(IsoNanos(c.s)) ELSE ErrC("ValueError")

\* pd.to_datetime(series, errors="raise")
ToDatetime(ser) ==
  Vectorised("datetime64[ns]", [i \in 1..Len(ser.vals) |-> DatetimeOfCell(ser.vals[i])])

\* the texts of a column under the currency clean-up
CurrencyTexts(ser) ==
  Converted("object", [i \in 1..Len(ser.vals) |-> CurrencyText(ser.vals[i])])

\* ---------------------------------------------------------- data frames
\* A DataFrame is [id, n, cols]: the identity of the object, the length of
\* its index (the row count) and the sequence of its columns.  id 0 stands
\* for None, 1 and 2 for the objects a session holds in turn, 3 for an
\* object a parser built.
NoneDF == [id |-> 0, n |-> 0, cols |-> <<>>]

IsNone(df) == df.id = 0

ColumnNames(df) == {df.cols[i].name : i \in 1..Len(df.cols)}

\* position of the column called name (the first one)
ColumnPos(df, name) ==
  CHOOSE i \in 1..Len(df.cols) :
    df.cols[i].name = name /\ \A j \in 1..(i - 1) : df.cols[j].name # name

\* DataFrame.empty: an axis of length 0
Empty(df) == df.n = 0 \/ Len(df.cols) = 0

\* data[column] = series, column present: the values and the dtype of that
\* column are replaced, nothing else
SetColumn(df, column, res) ==
  [df EXCEPT !.cols[ColumnPos(df, column)] = Column(column, res.dtype, res.vals)]

\* ---------------------------------------------------------------- files
\* An uploaded file is [name, type, header, cells]: type is the declared
\* media type split at its dots, cells[i] is the column under header[i];
\* the cells of a CSV are raw text.
Txt(s) == StrC(s)

SalesCsv ==
  [name |-> "sales.csv", type |-> <<"text/csv">>,
   header |-> <<"price", "qty">>,
   cells |-> << <<Txt(<<"$", "1", "0", ".", "0", "0">>),
                  Txt(<<"$", "2", "0", ".", "5", "0">>),
                  Txt(<<"f", "r", "e", "e">>)>>,
                <<Txt(<<"1">>), Txt(<<"2">>), Txt(<<"3">>)>> >>]

FeesXlsx ==
  [name |-> "fees.xlsx",
   type |-> <<"application/vnd", "openxmlformats-officedocument",
              "spreadsheetml", "sheet">>,
   header |-> <<"price", "qty", "price">>,
   cells |-> << <<Txt(<<"$", "1", ",", "2", "3", "4", ".", "5", "0">>),
                  Txt(<<"$", " ", "7">>)>>,
                <<Txt(<<"a", "b", "c">>), Txt(<<"-">>)>>,
                <<Txt(<<"$", "2", ".", "5", "0">>), Txt(<<"$", " ">>)>> >>]

\* a CSV as a browser with a spreadsheet program installed declares it
LegacyCsv ==
  [name |-> "legacy.csv", type |-> <<"application/vnd", "ms-excel">>,
   header |-> <<"qty">>, cells |-> << <<Txt(<<"1">>)>> >>]

\* the uploader with nothing in it
NoFile == [name |-> "", type |-> <<>>, header |-> <<>>, cells |-> <<>>]

Files == {SalesCsv, FeesXlsx, LegacyCsv, NoFile}

\* the parser renames a repeated header h to h.1, h.2, ...
Mangle(header) ==
  [i \in 1..Len(header) |->
     LET k == Cardinality({j \in 1..(i - 1) : header[j] = header[i]})
     IN  IF k = 0 THEN header[i] ELSE header[i] \o "." \o ToString(k)]

Frame(header, series) ==
  [id |-> 3, n |-> IF series = <<>> THEN 0 ELSE Len(series[1].vals),
   cols |-> [i \in 1..Len(header) |->
               Column(Mangle(header)[i], series[i].dtype, series[i].vals)]]

\* pd.read_csv(file, low_memory=False): a column whose every field is a
\* number becomes int64 or float64, any other stays text
ReadCsv(file) ==
  Frame(file.header,
        [i \in 1..Len(file.cells) |->
           LET num == ToNumeric(Converted("object", file.cells[i]))
           IN  IF num.exc = "" THEN num ELSE Converted("object", file.cells[i])])

\* pd.read_excel(file): the cells of the first sheet keep their types
ReadExcel(file) ==
  Frame(file.header,
        [i \in 1..Len(file.cells) |->
           LET ks == {file.cells[i][r].k : r \in 1..Len(file.cells[i])}
           IN  IF ks = {"int"} THEN Converted("int64", file.cells[i])
               ELSE IF ks \subseteq {"int", "float"}
               THEN Converted("float64",
                              [r \in 1..Len(file.cells[i]) |-> FloatOfCell(file.cells[i][r])])
               ELSE Converted("object", file.cells[i])])

\* file.type.endswith("sheet"), on a media type split at its dots
EndsWithSheet(type) == type # <<>> /\ type[Len(type)] = "sheet"

\* the body of load_file
load_file_body(file) ==
  IF file = NoFile THEN NoneDF
  ELSE IF file.type = <<"text/csv">> THEN ReadCsv(file)
  ELSE IF EndsWithSheet(file.type) THEN ReadExcel(file)
  ELSE NoneDF

\* -------------------------------------------------------------- outcomes
\* What a call leaves behind: the DataFrame in st.session_state.data, the
\* toasts it showed (msg, and the class of the exception a toast reports),
\* the exception that escaped it ("" when none did) and what it displayed
\* (a frame handed to st.dataframe, or the text of DataFrame.info).
Toast(msg) == [msg |-> msg, exc |-> ""]

ToastOf(msg, exc) == [msg |-> msg, exc |-> exc]

Nothing == [kind |-> "none", n |-> 0, cols |-> <<>>]

Shown(n, cols) == [kind |-> "frame", n |-> n, cols |-> cols]

Report(n, cols) == [kind |-> "info", n |-> n, cols |-> cols]

Outcome(df, toasts, fault, shown) ==
  [data |-> df, toasts |-> toasts, fault |-> fault, shown |-> shown]

Usages ==
  {"Currency", "General Text", "Number", "DateTime", "Non Currency (Floating)"}

\* rows of show_file_data after a transformation
DefaultRows == 10

Min(a, b) == IF a < b THEN a ELSE b

\* the last rows instead of the first (DataFrame.tail)
head_tail(df, rows) ==
  Shown(Min(rows, df.n),
        [i \in 1..Len(df.cols) |->
           [df.cols[i] EXCEPT !.vals =
              SubSeq(df.cols[i].vals, df.n - Min(rows, df.n) + 1, df.n)]])

\* DataFrame.head(rows)
head(df, rows) ==
  Shown(Min(rows, df.n),
        [i \in 1..Len(df.cols) |->
           [df.cols[i] EXCEPT !.vals = SubSeq(df.cols[i].vals, 1, Min(rows, df.n))]])

show_file_data(df, rows) ==
  IF IsNone(df) \/ Empty(df)
  THEN Outcome(df, <<Toast("No data to display")>>, "", Nothing)
  ELSE Outcome(df, <<>>, "", head(df, Min(rows, df.n)))

\* DataFrame.info(): the row count and, for each column, its name, its
\* count of non-null values and its dtype
file_information(df) ==
  IF IsNone(df) THEN Outcome(df, <<Toast("No file loaded")>>, "", Nothing)
  ELSE Outcome(df, <<>>, "",
               Report(df.n, [i \in 1..Len(df.cols) |->
                               [df.cols[i] EXCEPT !.vals =
                                  <<IntC(Cardinality({r \in 1..df.n :
                                           df.cols[i].vals[r].k # "NA"}))>>]]))

\* st.session_state.data[selected_cols]
column_filter(df, selected) ==
  IF selected = <<>>
  THEN Outcome(df, <<Toast("No columns selected")>>, "", Nothing)
  ELSE IF \E i \in 1..Len(selected) : selected[i] \notin ColumnNames(df)
  THEN Outcome(df, <<>>, "KeyError", Nothing)
  ELSE Outcome(df, <<>>, "",
               Shown(df.n, [i \in 1..Len(selected) |->
                              df.cols[ColumnPos(df, selected[i])]]))

\* the listed columns kept and the others removed
drop_columns_keep(df, columns) ==
  IF columns = {}
  THEN Outcome(df, <<Toast("No columns selected")>>, "", Nothing)
  ELSE IF IsNone(df) THEN Outcome(df, <<>>, "AttributeError", Nothing)
  ELSE IF ~(columns \subseteq ColumnNames(df))
  THEN Outcome(df, <<>>, "KeyError", Nothing)
  ELSE Outcome([df EXCEPT !.cols = SelectSeq(df.cols, LAMBDA c : c.name \in columns)],
               <<Toast("Dropped columns")>>, "", Nothing)

\* DataFrame.drop(columns=columns, inplace=True): a label that is not a
\* column raises KeyError before anything is removed
drop_columns(df, columns) ==
  IF columns = {}
  THEN Outcome(df, <<Toast("No columns selected")>>, "", Nothing)
  ELSE IF IsNone(df) THEN Outcome(df, <<>>, "AttributeError", Nothing)
  ELSE IF ~(columns \subseteq ColumnNames(df))
  THEN Outcome(df, <<>>, "KeyError", Nothing)
  ELSE Outcome([df EXCEPT !.cols = SelectSeq(df.cols, LAMBDA c : c.name \notin columns)],
               <<Toast("Dropped columns")>>, "", Nothing)

\* the right-hand side of data[column] = ... for each usage
Coerce(ser, usage) ==
  CASE usage = "Currency" -> AsTypeFloat(CurrencyTexts(AsTypeStr(ser)))
    [] usage = "General Text" -> AsTypeStr(ser)
    [] usage = "Number" -> AsTypeInt(ToNumeric(ser))
    [] usage = "DateTime" -> ToDatetime(ser)
    [] usage = "Non Currency (Floating)" -> AsTypeFloat(ToNumeric(ser))

\* a cell converted on its own, left as it is when it does not convert
CellwiseCoerce(ser, usage) ==
  Converted("object",
            [i \in 1..Len(ser.vals) |->
               LET one == Coerce(Column(ser.name, ser.dtype, <<ser.vals[i]>>), usage)
               IN  IF one.exc = "" THEN one.vals[1] ELSE ser.vals[i]])

\* the column converted cell by cell in place, up to the failure
transform_columns_cellwise(df, column, usage) ==
  IF IsNone(df) THEN Outcome(df, <<Toast("No data loaded")>>, "", Nothing)
  ELSE IF usage \notin Usages
  THEN Outcome(df, <<Toast("Invalid transformation type")>>, "", Nothing)
  ELSE IF column \notin ColumnNames(df)
  THEN Outcome(df, <<ToastOf("Conversion failed", "KeyError")>>, "", Nothing)
  ELSE LET ser == df.cols[ColumnPos(df, column)]
           res == Coerce(ser, usage)
       IN  IF res.exc # ""
           THEN Outcome(SetColumn(df, column, CellwiseCoerce(ser, usage)),
                        <<ToastOf("Conversion failed", res.exc)>>, "", Nothing)
           ELSE Outcome(SetColumn(df, column, res), <<Toast("converted")>>, "", Nothing)

transform_columns(df, column, usage) ==
  IF IsNone(df) THEN Outcome(df, <<Toast("No data loaded")>>, "", Nothing)
  ELSE IF usage \notin Usages
  THEN Outcome(df, <<Toast("Invalid transformation type")>>, "", Nothing)
  ELSE IF column \notin ColumnNames(df)
  THEN Outcome(df, <<ToastOf("Conversion failed", "KeyError")>>, "", Nothing)
  ELSE LET res == Coerce(df.cols[ColumnPos(df, column)], usage)
       IN  IF res.exc # ""
           THEN Outcome(df, <<ToastOf("Conversion failed", res.exc)>>, "", Nothing)
           ELSE Outcome(SetColumn(df, column, res), <<Toast("converted")>>, "", Nothing)

\* the rename without the test for a column already called name
rename_column_unchecked(df, column, name) ==
  IF IsNone(df) THEN Outcome(df, <<Toast("No data loaded")>>, "", Nothing)
  ELSE IF column = "" \/ name = ""
  THEN Outcome(df, <<Toast("Missing column or new name")>>, "", Nothing)
  ELSE Outcome([df EXCEPT !.cols =
                  [i \in 1..Len(df.cols) |->
                     IF df.cols[i].name = column
                     THEN [df.cols[i] EXCEPT !.name = name]
                     ELSE df.cols[i]]],
               <<Toast("Renamed")>>, "", Nothing)

\* the renamed column taken out and put back as the last one
rename_column_append(df, column, name) ==
  IF IsNone(df) THEN Outcome(df, <<Toast("No data loaded")>>, "", Nothing)
  ELSE IF column = "" \/ name = ""
  THEN Outcome(df, <<Toast("Missing column or new name")>>, "", Nothing)
  ELSE IF name \in ColumnNames(df)
  THEN Outcome(df, <<Toast("already exists")>>, "", Nothing)
  ELSE Outcome([df EXCEPT !.cols =
                  SelectSeq(df.cols, LAMBDA c : c.name # column)
                    \o [i \in 1..Len(SelectSeq(df.cols, LAMBDA c : c.name = column)) |->
                          [SelectSeq(df.cols, LAMBDA c : c.name = column)[i]
                             EXCEPT !.name = name]]],
               <<Toast("Renamed")>>, "", Nothing)

\* DataFrame.rename(columns={column: name}, inplace=True): a label that is
\* not a column is ignored
rename_column(df, column, name) ==
  IF IsNone(df) THEN Outcome(df, <<Toast("No data loaded")>>, "", Nothing)
  ELSE IF column = "" \/ name = ""
  THEN Outcome(df, <<Toast("Missing column or new name")>>, "", Nothing)
  ELSE IF name \in ColumnNames(df)
  THEN Outcome(df, <<Toast("already exists")>>, "", Nothing)
  ELSE Outcome([df EXCEPT !.cols =
                  [i \in 1..Len(df.cols) |->
                     IF df.cols[i].name = column
                     THEN [df.cols[i] EXCEPT !.name = name]
                     ELSE df.cols[i]]],
               <<Toast("Renamed")>>, "", Nothing)

\* the handler of the transformation form: transform_columns, then
\* show_file_data(10)
transform_click(df, column, usage) ==
  LET done == transform_columns(df, column, usage)
      view == show_file_data(done.data, DefaultRows)
  IN  Outcome(done.data, done.toasts \o view.toasts, done.fault, view.shown)

\* a new object is not the one the session holds
FreshId(df) == IF df.id = 1 THEN 2 ELSE 1

\* the stored object itself handed out, as a cache of references does
cache_data_shared(stored, df) == stored

\* what a call of a st.cache_data function hands out: the stored return
\* value deserialised, a new object at every call
cache_data(stored, df) ==
  IF IsNone(stored) THEN stored ELSE [stored EXCEPT !.id = FreshId(df)]

\* the result assigned whatever it is
file_picker_assign(df, loaded) ==
  IF ~IsNone(loaded)
  THEN Outcome(loaded, <<Toast("File loaded successfully")>>, "", Nothing)
  ELSE Outcome(loaded, <<Toast("Unsupported file type")>>, "", Nothing)

\* the handler of the file picker, loaded being what load_file returned
file_picker(df, loaded) ==
  IF ~IsNone(loaded)
  THEN Outcome(loaded, <<Toast("File loaded successfully")>>, "", Nothing)
  ELSE Outcome(df, <<Toast("Unsupported file type")>>, "", Nothing)

\* ----------------------------------------------------------------- state
VARIABLES
  data,    \* st.session_state.data
  cache,   \* the memo of st.cache_data for load_file, by uploaded file
  toasts,  \* the toasts of the last run of the script
  fault,   \* the exception that escaped the last run, "" when none
  shown,   \* what the last run displayed
  op       \* the call of the last run and its arguments

vars == <<data, cache, toasts, fault, shown, op>>

\* inputs
MaxRows == 3
MaxDrop == 2
MaxSelect == 2

NameArgs == {"price", "qty", "price.1"}

UsageArgs == Usages \cup {"Percent"}

DropArgs == {S \in SUBSET NameArgs : Cardinality(S) <= MaxDrop}

SelectArgs ==
  UNION {{s \in [1..k -> NameArgs] : \A i, j \in 1..k : i # j => s[i] # s[j]}
           : k \in 0..MaxSelect}

\* the files that parse
Tables == {SalesCsv, FeesXlsx}

NoOp ==
  [name |-> "", file |-> NoFile, column |-> "", newname |-> "",
   columns |-> {}, selected |-> <<>>, usage |-> "", rows |-> 0]

Miss == [hit |-> FALSE, val |-> NoneDF]

\* the value st.cache_data holds for load_file(file) after the call: the
\* one of an earlier call with the same file, else the body's
Stored(file) == IF cache[file].hit THEN cache[file].val ELSE load_file_body(file)

\* load_file(file), decorated
load_file(file) == cache_data(Stored(file), data)

\* inplace=True changes the object itself: every reference to the object
\* the session holds sees the change
InPlace(df) ==
  [f \in Files |->
     IF cache[f].hit /\ ~IsNone(data) /\ cache[f].val.id = data.id
     THEN [cache[f] EXCEPT !.val = df]
     ELSE cache[f]]

Apply(out) ==
  /\ data' = out.data
  /\ toasts' = out.toasts
  /\ fault' = out.fault
  /\ shown' = out.shown

Init ==
  /\ data = NoneDF
  /\ cache = [f \in Files |-> Miss]
  /\ toasts = <<>>
  /\ fault = ""
  /\ shown = Nothing
  /\ op = NoOp

LoadFile(file) ==
  /\ op' = [NoOp EXCEPT !.name = "load", !.file = file]
  /\ cache' = [cache EXCEPT ![file] = [hit |-> TRUE, val |-> Stored(file)]]
  /\ Apply(file_picker(data, load_file(file)))

ShowRows(rows) ==
  /\ op' = [NoOp EXCEPT !.name = "preview", !.rows = rows]
  /\ Apply(show_file_data(data, rows))
  /\ UNCHANGED cache

FileInfo ==
  /\ op' = [NoOp EXCEPT !.name = "info"]
  /\ Apply(file_information(data))
  /\ UNCHANGED cache

Filter(selected) ==
  /\ ~IsNone(data)
  /\ op' = [NoOp EXCEPT !.name = "select", !.selected = selected]
  /\ Apply(column_filter(data, selected))
  /\ UNCHANGED cache

Drop(columns) ==
  /\ op' = [NoOp EXCEPT !.name = "drop", !.columns = columns]
  /\ Apply(drop_columns(data, columns))
  /\ cache' = InPlace(data')

Transform(column, usage) ==
  /\ op' = [NoOp EXCEPT !.name = "transform", !.column = column, !.usage = usage]
  /\ Apply(transform_click(data, column, usage))
  /\ cache' = InPlace(data')

Rename(column, name) ==
  /\ op' = [NoOp EXCEPT !.name = "rename", !.column = column, !.newname = name]
  /\ Apply(rename_column(data, column, name))
  /\ cache' = InPlace(data')

\* one run of the script, the uploads drawn from files
Run(files) ==
  \/ \E file \in files : LoadFile(file)
  \/ \E rows \in 1..MaxRows : ShowRows(rows)
  \/ FileInfo
  \/ \E selected \in SelectArgs : Filter(selected)
  \/ \E columns \in DropArgs : Drop(columns)
  \/ \E column \in NameArgs, usage \in UsageArgs : Transform(column, usage)
  \/ \E column \in NameArgs \cup {""}, name \in NameArgs \cup {""} : Rename(column, name)

Next == Run(Files)

Spec == Init /\ [][Next]_vars

\* the sessions whose uploads all parse
NextLoaded == Run(Tables)

SpecLoaded == Init /\ [][NextLoaded]_vars

\* the sessions with the uploads that are refused beside one that parses
NextRefused == Run({SalesCsv, LegacyCsv, NoFile})

SpecRefused == Init /\ [][NextRefused]_vars

\* =============================================================== claims
\* The outcomes of the specification, read off what a run leaves behind.
LoadedToast == <<Toast("File loaded successfully")>>

DroppedToast == <<Toast("Dropped columns")>>

RenamedToast == <<Toast("Renamed")>>

NoDataToast == <<Toast("No data to display")>>

FailureMsgs ==
  {"Unsupported file type", "No columns selected", "No data loaded",
   "Invalid transformation type", "Conversion failed",
   "Missing column or new name", "already exists", "Rename failed"}

\* the last call failed: an exception escaped it or it reported a failure
Failing == fault # "" \/ (toasts # <<>> /\ toasts[1].msg \in FailureMsgs)

\* the last call returned a failure that reports a missing column
ReturnedColumnNotFound ==
  fault = "" /\ toasts # <<>> /\ toasts[1].msg \in FailureMsgs /\ toasts[1].exc = "KeyError"

\* the last call returned CoercionFailure carrying a parse error
ReturnedCoercionFailure ==
  /\ fault = ""
  /\ toasts # <<>>
  /\ toasts[1].msg = "Conversion failed"
  /\ toasts[1].exc \in {"ValueError", "TypeError"}

Present(df, column) == ~IsNone(df) /\ column \in ColumnNames(df)

TheColumn(df, column) == df.cols[ColumnPos(df, column)]

\* the text of row r of a column
CellText(ser, r) == AsTypeStr(ser).vals[r].s

\* the currency rule of the specification applied to a text: the leading
\* "$" and the "," separators removed, the rest trimmed
CurrencyRule(s) ==
  Strip(RemoveChar(IF s # <<>> /\ s[1] = "$" THEN Tail(s) ELSE s, ","))

\* row r of the column parses under the kind
CanParse(usage, ser, r) ==
  CASE usage = "Currency" ->
         CurrencyRule(CellText(ser, r)) = <<>> \/ IsDecimal(CurrencyRule(CellText(ser, r)))
    [] usage \in {"Number", "Non Currency (Floating)"} ->
         \/ ser.vals[r].k \in {"int", "float", "ts"}
         \/ ser.vals[r].k = "str" /\ IsDecimal(Strip(ser.vals[r].s))
    [] usage = "DateTime" ->
         \/ ser.vals[r].k \in {"int", "float", "ts"}
         \/ ser.vals[r].k = "str" /\ IsIsoTimestamp(ser.vals[r].s)

FailableUsages == Usages \ {"General Text"}

\* C1: a transformation to Number, DateTime, Floating or Currency of a
\* column with a cell that does not parse fails with CoercionFailure and
\* leaves the whole table (that column's values and dtype included) as it was.
C1_AllOrNothing ==
  [][(/\ op'.name = "transform"
      /\ op'.usage \in FailableUsages
      /\ Present(data, op'.column)
      /\ \E r \in 1..data.n : ~CanParse(op'.usage, TheColumn(data, op'.column), r))
     => (ReturnedCoercionFailure' /\ data' = data)]_vars

\* the scenario: Currency on the price column holding "free" has failed and
\* the column still holds its three texts
C1_Witness ==
  /\ op.name = "transform" /\ op.usage = "Currency" /\ op.column = "price"
  /\ ReturnedCoercionFailure
  /\ Present(data, "price")
  /\ TheColumn(data, "price").dtype = "object"
  /\ TheColumn(data, "price").vals[3] = Txt(<<"f", "r", "e", "e">>)

\* C2: a drop of a non-empty set with a name that is not a column returns
\* ColumnNotFound and removes nothing; a drop of the empty set returns
\* NoColumnsSelected and changes nothing.
C2_DropAtomic ==
  [][(op'.name = "drop" /\ ~IsNone(data))
     => /\ (op'.columns # {} /\ ~(op'.columns \subseteq ColumnNames(data)))
             => (ReturnedColumnNotFound' /\ data' = data)
        /\ op'.columns = {}
             => (toasts' = <<Toast("No columns selected")>> /\ fault' = "" /\ data' = data)]_vars

\* C3: transform, rename, drop and select given a name that is not a column
\* return ColumnNotFound, the table unchanged; no success, no escaped fault.
C3_ColumnNotFound ==
  [][(/\ ~IsNone(data)
      /\ \/ op'.name = "transform" /\ op'.usage \in Usages
              /\ op'.column \notin ColumnNames(data)
         \/ op'.name = "rename" /\ op'.column # "" /\ op'.newname # ""
              /\ op'.column \notin ColumnNames(data)
              /\ op'.newname \notin ColumnNames(data)
         \/ op'.name = "drop" /\ ~(op'.columns \subseteq ColumnNames(data))
         \/ op'.name = "select"
              /\ \E i \in 1..Len(op'.selected) : op'.selected[i] \notin ColumnNames(data))
     => (ReturnedColumnNotFound' /\ data' = data)]_vars

\* the names of the columns are pairwise distinct and the columns are as
\* long as the index
WellFormed(df) ==
  /\ \A i, j \in 1..Len(df.cols) : i # j => df.cols[i].name # df.cols[j].name
  /\ \A i \in 1..Len(df.cols) : Len(df.cols[i].vals) = df.n

\* C4: in every reachable state the column names are pairwise distinct and
\* the columns equally long; a rename to a name that is already a column
\* (the column's own name included) is refused before anything changes.
C4_UniqueNames ==
  /\ [](~IsNone(data) => WellFormed(data))
  /\ [][(/\ op'.name = "rename" /\ op'.column # ""
         /\ Present(data, op'.newname))
        => (toasts' = <<Toast("already exists")>> /\ fault' = "" /\ data' = data)]_vars

\* a column was renamed to its own name and the rename was refused
C4_Witness ==
  /\ op.name = "rename" /\ op.column = op.newname
  /\ Present(data, op.column)
  /\ Len(data.cols) >= 2
  /\ toasts = <<Toast("already exists")>>

\* C5: a drop of a non-empty set of present columns succeeds and leaves
\* exactly the other columns, in their order, with their values and dtypes,
\* and the row count as it was.
C5_DropExact ==
  [][(/\ op'.name = "drop" /\ ~IsNone(data)
      /\ op'.columns # {} /\ op'.columns \subseteq ColumnNames(data))
     => /\ toasts' = DroppedToast /\ fault' = ""
        /\ data'.n = data.n /\ data'.id = data.id
        /\ ColumnNames(data') = ColumnNames(data) \ op'.columns
        /\ Len(data'.cols) = Cardinality(ColumnNames(data) \ op'.columns)
        /\ \A i \in 1..Len(data'.cols) :
             data'.cols[i] = TheColumn(data, data'.cols[i].name)
        /\ \A i, j \in 1..Len(data'.cols) :
             i < j => ColumnPos(data, data'.cols[i].name) < ColumnPos(data, data'.cols[j].name)]_vars

\* the middle one of three columns was dropped: the outer two are left in
\* their order and the two rows are still there
C5_Witness ==
  /\ op.name = "drop" /\ op.columns = {"qty"} /\ toasts = DroppedToast
  /\ data.n = 2
  /\ Len(data.cols) = 2
  /\ data.cols[1].name = "price" /\ data.cols[2].name = "price.1"

\* C6: Currency maps each cell on its own: "$" and "," removed and the rest
\* trimmed, an empty rest is null and any other rest is parsed as a float;
\* the conversion fails only on a rest that is not a number.
C6_CurrencyRule ==
  [][(op'.name = "transform" /\ op'.usage = "Currency" /\ Present(data, op'.column))
     => LET ser == TheColumn(data, op'.column)
            rest == [r \in 1..data.n |-> CurrencyRule(CellText(ser, r))]
        IN  IF \A r \in 1..data.n : rest[r] = <<>> \/ IsDecimal(rest[r])
            THEN /\ toasts'[1] = Toast("converted") /\ fault' = ""
                 /\ TheColumn(data', op'.column).dtype = "float64"
                 /\ \A r \in 1..data.n :
                      TheColumn(data', op'.column).vals[r] =
                        IF rest[r] = <<>> THEN NAC ELSE FloatC(DecimalVal(rest[r]))
            ELSE ReturnedCoercionFailure' /\ data' = data]_vars

\* the table a file parses to, whichever object holds it
SameTable(df, other) == df.n = other.n /\ df.cols = other.cols

\* C7: a successful load of a file yields the table the file parses to,
\* whatever was done to the active table since an earlier load of it (the
\* memoised value is never altered), and the session then holds that table
\* alone, in a new object.
C7_LoadIdempotent ==
  /\ [](\A f \in Files : cache[f].hit => cache[f].val = load_file_body(f))
  /\ [][(op'.name = "load" /\ toasts' = LoadedToast)
        => /\ SameTable(data', load_file_body(op'.file))
           /\ data'.id # data.id
           /\ cache'[op'.file].hit]_vars

\* sales.csv, the only file loaded so far, has been loaded a second time:
\* the session holds its second object, with the table as the file has it
C7_Witness ==
  /\ op.name = "load" /\ op.file = SalesCsv /\ toasts = LoadedToast
  /\ ~cache[FeesXlsx].hit
  /\ data.id = 2
  /\ SameTable(data, load_file_body(SalesCsv))

\* C8: a failing call (a load of an unsupported type or of no file, a
\* failed transform, drop, rename or select) leaves the active table as it
\* was; the session holds another object only after a successful load.
C8_ErrorsKeepState ==
  /\ [][Failing' => data' = data]_vars
  /\ [][data'.id # data.id => (op'.name = "load" /\ toasts' = LoadedToast)]_vars

\* a file of an unsupported type was submitted while a table was active,
\* and the table is still there
C8_Witness ==
  /\ op.name = "load" /\ op.file = LegacyCsv
  /\ toasts = <<Toast("Unsupported file type")>>
  /\ ~IsNone(data)
  /\ Len(data.cols) > 0

\* the rename of column a to b: only the name of a changes, in place
RenamedTo(df, a, b, after) ==
  /\ after.id = df.id /\ after.n = df.n
  /\ Len(after.cols) = Len(df.cols)
  /\ \A i \in 1..Len(df.cols) :
       /\ after.cols[i].dtype = df.cols[i].dtype
       /\ after.cols[i].vals = df.cols[i].vals
       /\ after.cols[i].name = IF i = ColumnPos(df, a) THEN b ELSE df.cols[i].name

\* C9: for a column a and a non-empty name b that is not a column,
\* rename(a, b) then rename(b, a) both succeed and give the table back; one
\* successful rename changes the name of that column only, in its position.
C9_RenameRoundTrip ==
  /\ [](~IsNone(data) =>
          \A a \in ColumnNames(data), b \in NameArgs \ ColumnNames(data) :
            LET there == rename_column(data, a, b)
                back == rename_column(there.data, b, a)
            IN  /\ there.toasts = RenamedToast /\ there.fault = ""
                /\ back.toasts = RenamedToast /\ back.fault = ""
                /\ RenamedTo(data, a, b, there.data)
                /\ back.data = data)
  /\ [][(/\ op'.name = "rename" /\ Present(data, op'.column)
         /\ op'.newname # "" /\ op'.newname \notin ColumnNames(data))
        => (/\ toasts' = RenamedToast /\ fault' = ""
            /\ RenamedTo(data, op'.column, op'.newname, data'))]_vars

\* the first of two columns has been given a new name and is still the
\* first, with its three texts
C9_Witness ==
  /\ op.name = "rename" /\ toasts = RenamedToast
  /\ op.column = "price" /\ op.newname = "price.1"
  /\ Len(data.cols) = 2
  /\ data.cols[1].name = "price.1" /\ data.cols[2].name = "qty"
  /\ data.cols[1].vals[3] = Txt(<<"f", "r", "e", "e">>)

\* what preview(rows) of a table with something to show displays
FirstRows(df, rows, view) ==
  /\ view.kind = "frame"
  /\ view.n = Min(rows, df.n)
  /\ Len(view.cols) = Len(df.cols)
  /\ \A i \in 1..Len(df.cols) :
       /\ view.cols[i].name = df.cols[i].name
       /\ Len(view.cols[i].vals) = Min(rows, df.n)
       /\ \A r \in 1..Min(rows, df.n) : view.cols[i].vals[r] = df.cols[i].vals[r]

\* C10 as stated: preview(n) shows the first min(n, row_count) rows and
\* never changes the table; "no data" is signalled exactly when there is
\* no table or the row count is 0.
C10_Original ==
  [][op'.name = "preview"
     => /\ data' = data /\ fault' = ""
        /\ (toasts' = NoDataToast) <=> (IsNone(data) \/ data.n = 0)
        /\ toasts' # NoDataToast => FirstRows(data, op'.rows, shown')]_vars

\* C10 amended: "no data" is signalled exactly when there is no table, or
\* no row, or no column; otherwise the first min(n, row_count) rows are
\* shown in their order; the table is never changed.
C10_Preview ==
  [][op'.name = "preview"
     => /\ data' = data /\ fault' = ""
        /\ (toasts' = NoDataToast /\ shown' = Nothing)
             <=> (IsNone(data) \/ data.n = 0 \/ Len(data.cols) = 0)
        /\ toasts' # NoDataToast => (toasts' = <<>> /\ FirstRows(data, op'.rows, shown'))]_vars

\* more rows were asked for than the table has, and all of them are shown
C10_Witness ==
  /\ op.name = "preview" /\ ~IsNone(data)
  /\ op.rows > data.n
  /\ toasts = <<>>
  /\ FirstRows(data, op.rows, shown)
  /\ shown.n = data.n

====
